---- MODULE Spec2Model ----
(***************************************************************************)
(* Froth monitor: the frame-acquisition and motion-tracking pipeline.      *)
(*                                                                         *)
(* Two kinds of thread are modelled.  A capture thread runs                *)
(* CameraThread._capture_loop, one step per loop test, pause test, read    *)
(* and emission.  The GUI                                                  *)
(* thread runs the Qt event loop: it executes the EventHandler slots       *)
(* (import_local_video, pause_play, reset_mission, ...) and the slot       *)
(* process_new_frame connected to CameraThread.frame_available.  The       *)
(* signal is emitted from a Python thread that is not the receiver's       *)
(* thread, so Qt posts it to the GUI thread's event queue (queued          *)
(* connection); the slot runs later, on the GUI thread.                    *)
(*                                                                         *)
(* Python values: None is the empty tuple <<>>, a present value v is <<v>>;*)
(* the pair (None, None) is << <<>>, <<>> >>.                              *)
(***************************************************************************)
EXTENDS Integers, Sequences, FiniteSets, TLC

\* ------------------------------------------------------------------ bounds
\* frames the sources can deliver in one run (read() succeeds at most so often)
MaxReads == 2
\* capture threads that can be created in one run (successful start_capture calls)
MaxThreads == 2
\* ROIs the operator draws in one run
MaxRois == 1
\* nesting depth of process_new_frame activations on the GUI thread
MaxDepth == 2

\* ------------------------------------------------------------ Python None
None == <<>>
Some(v) == <<v>>

VARIABLES
  \* CameraThread attributes (video_capture: None, or Some of the state of
  \* the cv2.VideoCapture object: "open", "unopened", "released")
  running, paused, if_release, video_capture, thread_,
  \* the capture threads created so far: thread number -> [pc, frame]
  threads,
  \* one entry per frame read so far: what became of it
  frame_log,
  \* Qt event queue of the GUI thread: frames posted by frame_available.emit
  queue,
  \* GUI thread: stack of running slot activations (last = innermost)
  call_stack,
  \* EventHandler attributes (the drawing_ flags belong to its overlay widget)
  playing, has_last_video_source, confirm_calibration, drawing_roi,
  drawing_ruler, drawing_arrow,
  \* EventHandler.recording_active, Export.finish_save_setting and the
  \* VideoRecorder instance
  recording_active, finish_save_setting, video_recorder,
  \* FrameModel instance
  frame_model,
  \* frames emitted since pause() or stop_capture() last set its flag;
  \* None once resume() or start_capture has set its flag again
  since_flag,
  \* wall clock, in whole seconds (time.strftime("%H:%M:%S"))
  clock

vars == <<running, paused, if_release, video_capture, thread_, threads,
          frame_log, queue, call_stack, playing,
          has_last_video_source, confirm_calibration, drawing_roi,
          drawing_ruler, drawing_arrow,
          recording_active, finish_save_setting, video_recorder,
          frame_model, since_flag, clock>>

camera_vars == <<running, paused, if_release, video_capture, thread_, threads>>
recorder_vars == <<recording_active, finish_save_setting, video_recorder>>

\* ------------------------------------------------------- image_analysis.py
\* Inputs that stand for what OpenCV computes from the pixels of two crops:
\*   flow    - the mean displacement the optical-flow routine finds
\*   corners - number of corners goodFeaturesToTrack finds (0: it returns None)
\*   good    - number of points calcOpticalFlowPyrLK tracks with status 1
Flows == {<<0, 0>>, <<2, -4>>}
CvResults == [flow : Flows, corners : {0, 2}, good : {0, 1}]

\* VideoAnalysis.__init__: note the capital F of the default selector
VideoAnalysis == [previous_frame |-> None,
                  current_algorithm |-> "Farneback",
                  prev_pts |-> None,
                  \* bookkeeping: what the sparse branch did in the last call
                  last_lk |-> None]

\* the sparse branch ran: whether goodFeaturesToTrack was called, and the
\* number of points calcOpticalFlowPyrLK tracked with status 1 (bookkeeping)
SparseRun(detect, good) == Some([detect |-> detect, good |-> good])

Min(a, b) == IF a < b THEN a ELSE b

\* variant of analyze: an unrecognized selector falls back to Farneback
analyze_defaulting(self, current_frame, cv) ==
  IF self.previous_frame = None
    THEN [self |-> [self EXCEPT !.previous_frame = Some(current_frame),
                                !.prev_pts = None,
                                !.last_lk = None],
          ret |-> <<None, None>>, raised |-> FALSE]
  ELSE [self |-> [self EXCEPT !.previous_frame = Some(current_frame),
                              !.last_lk = None],
        ret |-> <<Some(cv.flow[1]), Some(cv.flow[2])>>, raised |-> FALSE]

\* variant of analyze: the sparse branch keeps its points when none of them
\* was tracked
analyze_keeping_points(self, current_frame, cv) ==
  IF self.previous_frame = None
    THEN [self |-> [self EXCEPT !.previous_frame = Some(current_frame),
                                !.prev_pts = None,
                                !.last_lk = None],
          ret |-> <<None, None>>, raised |-> FALSE]
  ELSE IF self.current_algorithm = "farneback"
    THEN [self |-> [self EXCEPT !.previous_frame = Some(current_frame),
                                !.last_lk = None],
          ret |-> <<Some(cv.flow[1]), Some(cv.flow[2])>>, raised |-> FALSE]
  ELSE IF self.current_algorithm = "lucas-kanade"
    THEN LET detected == IF self.prev_pts = None
                           THEN (IF cv.corners > 0 THEN Some(cv.corners) ELSE None)
                           ELSE self.prev_pts
             ngood == IF detected = None THEN 0 ELSE Min(cv.good, detected[1])
         IN [self |-> [self EXCEPT !.previous_frame = Some(current_frame),
                                   !.prev_pts = IF ngood > 0 THEN Some(ngood) ELSE detected,
                                   !.last_lk = SparseRun(self.prev_pts = None, ngood)],
             ret |-> IF ngood > 0 THEN <<Some(cv.flow[1]), Some(cv.flow[2])>>
                                  ELSE <<Some(0), Some(0)>>,
             raised |-> FALSE]
  ELSE [self |-> self, ret |-> <<None, None>>, raised |-> TRUE]

\* VideoAnalysis.analyze(current_frame); the result carries the new state of
\* the estimator, the returned pair and whether the call raised ValueError.
analyze(self, current_frame, cv) ==
  IF self.previous_frame = None
    THEN [self |-> [self EXCEPT !.previous_frame = Some(current_frame),
                                !.prev_pts = None,
                                !.last_lk = None],
          ret |-> <<None, None>>, raised |-> FALSE]
  ELSE IF self.current_algorithm = "farneback"
    THEN [self |-> [self EXCEPT !.previous_frame = Some(current_frame),
                                !.last_lk = None],
          ret |-> <<Some(cv.flow[1]), Some(cv.flow[2])>>, raised |-> FALSE]
  ELSE IF self.current_algorithm = "lucas-kanade"
    THEN LET detected == IF self.prev_pts = None
                           THEN (IF cv.corners > 0 THEN Some(cv.corners) ELSE None)
                           ELSE self.prev_pts
             ngood == IF detected = None THEN 0 ELSE Min(cv.good, detected[1])
         IN [self |-> [self EXCEPT !.previous_frame = Some(current_frame),
                                   !.prev_pts = IF ngood > 0 THEN Some(ngood) ELSE None,
                                   !.last_lk = SparseRun(self.prev_pts = None, ngood)],
             ret |-> IF ngood > 0 THEN <<Some(cv.flow[1]), Some(cv.flow[2])>>
                                  ELSE <<Some(0), Some(0)>>,
             raised |-> FALSE]
  ELSE [self |-> self, ret |-> <<None, None>>, raised |-> TRUE]

\* ------------------------------------------------------------- fm_model.py
\* Directions are multiples of 90 degrees, for which cos and sin are exact.
Degrees == {0, 90}
Cos(d) == CASE d = 0 -> 1 [] d = 90 -> 0 [] d = 180 -> -1 [] d = -90 -> 0
Sin(d) == CASE d = 0 -> 0 [] d = 90 -> 1 [] d = 180 -> 0 [] d = -90 -> -1

\* ROI.__init__(roi_coordinate, px2mm, degree); now is the wall-clock second.
\* The displacements and ratios drawn as inputs divide exactly, so lengths in
\* millimetres are integers.
ROI(roi_coordinate, px2mm, degree, now) ==
  [coordinate |-> roi_coordinate,
   analysis |-> VideoAnalysis,
   delta_pixels |-> None,
   cross_position |-> None,
   delta_history |-> <<>>,
   px2mm |-> px2mm,
   degree |-> degree,
   timestamp |-> now,
   timestamp_buffer |-> now,
   current_velocity |-> 0,
   velo_only_history |-> <<>>,
   average_velocity_past_30s |-> None,
   \* bookkeeping: analyze calls made, those that returned a displacement,
   \* how the last one ended, what process_frame returned last and the
   \* second of the last call
   ncalls |-> 0,
   npairs |-> 0,
   last_ret |-> <<FALSE, FALSE>>,
   last_call |-> None,
   last_analyze |-> "none"]

\* variant of calculate_real_delta: the y component is not negated
calculate_real_delta_y_up(self, delta_pixels) ==
  (delta_pixels[1][1] * Cos(self.degree) + delta_pixels[2][1] * Sin(self.degree))
    \div self.px2mm

\* ROI.calculate_real_delta: projection = dx*cos + dy*(-sin);
\* projection_mm = projection * mm2px, where mm2px = 1 / px2mm
calculate_real_delta(self, delta_pixels) ==
  (delta_pixels[1][1] * Cos(self.degree) + delta_pixels[2][1] * (0 - Sin(self.degree)))
    \div self.px2mm

\* variant of calculate_velocity: the displacement of the frame that opens
\* the new second is added to the sample of the second that ended
calculate_velocity_inclusive(self, delta) ==
  IF self.timestamp = self.timestamp_buffer
    THEN [self |-> [self EXCEPT !.current_velocity = @ + delta], ret |-> FALSE]
    ELSE LET n == Len(self.delta_history)
             hist == IF n > 1
                       THEN [self.delta_history EXCEPT
                               ![n][4] = Some(self.current_velocity + delta)]
                       ELSE self.delta_history
         IN [self |-> [self EXCEPT !.timestamp_buffer = self.timestamp,
                                   !.delta_history = hist,
                                   !.velo_only_history =
                                      Append(@, self.current_velocity + delta),
                                   !.current_velocity = 0],
             ret |-> TRUE]

\* ROI.calculate_velocity(delta): [self, ret]
\* variant of calculate_velocity: the sample is written into the first entry
calculate_velocity_marking_first(self, delta) ==
  IF self.timestamp = self.timestamp_buffer
    THEN [self |-> [self EXCEPT !.current_velocity = @ + delta], ret |-> FALSE]
    ELSE LET n == Len(self.delta_history)
             hist == IF n > 1
                       THEN [self.delta_history EXCEPT ![1][4] = Some(self.current_velocity)]
                       ELSE self.delta_history
         IN [self |-> [self EXCEPT !.timestamp_buffer = self.timestamp,
                                   !.delta_history = hist,
                                   !.velo_only_history = Append(@, self.current_velocity),
                                   !.current_velocity = delta],
             ret |-> TRUE]

calculate_velocity(self, delta) ==
  IF self.timestamp = self.timestamp_buffer
    THEN [self |-> [self EXCEPT !.current_velocity = @ + delta], ret |-> FALSE]
    ELSE LET n == Len(self.delta_history)
             hist == IF n > 1
                       THEN [self.delta_history EXCEPT ![n][4] = Some(self.current_velocity)]
                       ELSE self.delta_history
         IN [self |-> [self EXCEPT !.timestamp_buffer = self.timestamp,
                                   !.delta_history = hist,
                                   !.velo_only_history = Append(@, self.current_velocity),
                                   !.current_velocity = delta],
             ret |-> TRUE]

RECURSIVE SumSeq(_)
SumSeq(s) == IF s = <<>> THEN 0 ELSE Head(s) + SumSeq(Tail(s))

\* the slice s[-k:]
LastK(s, k) == IF Len(s) <= k THEN s ELSE SubSeq(s, Len(s) - k + 1, Len(s))

\* length of the averaging window (fm_model.py:153)
AverageWindow == 30

\* ROI.calculate_average_velocity: the average is kept as the sum of the
\* window, i.e. as a numerator over AverageWindow
calculate_average_velocity(self) ==
  IF Len(self.velo_only_history) % AverageWindow = 0
    THEN [self |-> [self EXCEPT !.average_velocity_past_30s =
                       Some(SumSeq(LastK(self.velo_only_history, AverageWindow)))],
          ret |-> TRUE]
    ELSE [self |-> self, ret |-> FALSE]

\* variant of append_delta: no entry is appended by the call that finalizes
\* a velocity sample
append_delta_same_second(v, av, delta_pixels, calibrated_delta, now) ==
  [self |-> [av.self EXCEPT !.delta_history =
               IF v.ret THEN @
               ELSE Append(@, <<now, delta_pixels, calibrated_delta, None>>),
                            !.last_ret = <<v.ret, av.ret>>],
   ret |-> <<v.ret, av.ret>>, raised |-> FALSE]

\* ROI.process_frame, lines 88-92: the history entry is appended and the
\* two flags are returned; v and av are the results of calculate_velocity
\* and calculate_average_velocity
append_delta(v, av, delta_pixels, calibrated_delta, now) ==
  [self |-> [av.self EXCEPT !.delta_history =
               Append(@, <<now, delta_pixels, calibrated_delta, None>>),
                            !.last_ret = <<v.ret, av.ret>>],
   ret |-> <<v.ret, av.ret>>, raised |-> FALSE]

\* ROI.process_frame, lines 85-87, from the result v of calculate_velocity
average_delta(v, delta_pixels, calibrated_delta, now) ==
  append_delta(v, calculate_average_velocity(v.self), delta_pixels, calibrated_delta, now)

\* ROI.process_frame, lines 81-86, from the calibrated displacement
velocity_delta(self, delta_pixels, calibrated_delta, now) ==
  average_delta(calculate_velocity([self EXCEPT !.timestamp = now], calibrated_delta),
                delta_pixels, calibrated_delta, now)

\* variant of store_delta: the sentinel call stamps the tracker
store_delta_stamping(self, a, now) ==
  IF a.raised
    THEN [self |-> [self EXCEPT !.analysis = a.self, !.ncalls = @ + 1,
                                !.last_call = Some(now),
                                !.last_analyze = "raised"],
          ret |-> <<FALSE, FALSE>>, raised |-> TRUE]
  ELSE IF a.ret = <<None, None>>
    THEN [self |-> [self EXCEPT !.analysis = a.self, !.ncalls = @ + 1,
                                !.last_analyze = "sentinel",
                                !.last_call = Some(now),
                                !.last_ret = <<FALSE, FALSE>>,
                                !.timestamp = now,
                                !.timestamp_buffer = now,
                                !.delta_pixels = Some(a.ret)],
          ret |-> <<FALSE, FALSE>>, raised |-> FALSE]
  ELSE velocity_delta([self EXCEPT !.analysis = a.self, !.ncalls = @ + 1,
                                   !.npairs = @ + 1,
                                   !.last_call = Some(now),
                                   !.last_analyze = "pair",
                                   !.delta_pixels = Some(a.ret)],
                      a.ret, calculate_real_delta(self, a.ret), now)

\* ROI.process_frame, lines 76-92, from the result a of analyze
store_delta(self, a, now) ==
  IF a.raised
    THEN [self |-> [self EXCEPT !.analysis = a.self, !.ncalls = @ + 1,
                                !.last_call = Some(now),
                                !.last_analyze = "raised"],
          ret |-> <<FALSE, FALSE>>, raised |-> TRUE]
  ELSE IF a.ret = <<None, None>>
    THEN [self |-> [self EXCEPT !.analysis = a.self, !.ncalls = @ + 1,
                                !.last_analyze = "sentinel",
                                !.last_call = Some(now),
                                !.last_ret = <<FALSE, FALSE>>,
                                !.delta_pixels = Some(a.ret)],
          ret |-> <<FALSE, FALSE>>, raised |-> FALSE]
  ELSE velocity_delta([self EXCEPT !.analysis = a.self, !.ncalls = @ + 1,
                                   !.npairs = @ + 1,
                                   !.last_call = Some(now),
                                   !.last_analyze = "pair",
                                   !.delta_pixels = Some(a.ret)],
                      a.ret, calculate_real_delta(self, a.ret), now)

\* ROI.process_frame(frame): [self, ret, raised]
ROI_process_frame(self, frame, now, cv) ==
  store_delta(self, analyze(self.analysis, frame, cv), now)

\* what a call of a FrameModel method returned (bookkeeping); ret is None
\* for a call that raised
Returned(op, ret) == Some([op |-> op, ret |-> ret])

\* FrameModel.__init__
FrameModel == [frame_count |-> 0,
               frame_history |-> <<>>,
               roi_list |-> <<>>,
               last_processed_time |-> None,
               px2mm |-> 1,
               degree |-> -90,
               \* bookkeeping: the last value a method returned
               last_ret |-> None]

\* the loop "for roi in self.roi_list" of FrameModel.process_frame from ROI
\* number i on; acc is [roi_list, new_velo, new_average, raised]
RECURSIVE process_rois(_, _, _, _, _)

\* the loop goes on after ROI number i, unless its process_frame raised
next_roi(acc, i, frame, now, cv) ==
  IF acc.raised THEN acc ELSE process_rois(acc, i + 1, frame, now, cv)

\* a count that keeps the flags of the last tracker only
count_roi_last(acc, i, r) ==
  [roi_list |-> [acc.roi_list EXCEPT ![i] = r.self],
   new_velo |-> IF r.ret[1] THEN 1 ELSE 0,
   new_average |-> IF r.ret[2] THEN 1 ELSE 0,
   raised |-> r.raised]

\* lines 271-275: the result r of roi.process_frame is counted
count_roi(acc, i, r) ==
  [roi_list |-> [acc.roi_list EXCEPT ![i] = r.self],
   new_velo |-> acc.new_velo + (IF r.ret[1] THEN 1 ELSE 0),
   new_average |-> acc.new_average + (IF r.ret[2] THEN 1 ELSE 0),
   raised |-> r.raised]

\* lines 260-268: the coordinates pass the test "x1 >= 0 and y1 >= 0 and
\* x2 > 0 and y2 > 0"
valid_roi(c) == c[1] >= 0 /\ c[2] >= 0 /\ c[3] > 0 /\ c[4] > 0

process_rois(acc, i, frame, now, cv) ==
  IF i > Len(acc.roi_list) THEN acc
  ELSE IF valid_roi(acc.roi_list[i].coordinate)
    THEN next_roi(count_roi(acc, i, ROI_process_frame(acc.roi_list[i], frame, now, cv)),
                  i, frame, now, cv)
  ELSE process_rois(acc, i + 1, frame, now, cv)

\* lines 277-284: the flags and the return value, from the result of the loop
frame_result(self, acc) ==
  [self |-> [self EXCEPT
               !.roi_list = acc.roi_list,
               !.last_ret = Returned("process_frame",
                              IF acc.raised THEN None
                              ELSE Some(<<acc.new_velo > 0, acc.new_average > 0,
                                          self.frame_count>>))],
   ret |-> <<self.frame_count, acc.roi_list, acc.new_velo > 0, acc.new_average > 0>>,
   raised |-> acc.raised]

\* lines 255-284, from the model with the frame counted
frame_rois(self, frame, now, cv) ==
  frame_result(self, process_rois([roi_list |-> self.roi_list, new_velo |-> 0,
                                   new_average |-> 0, raised |-> FALSE],
                                  1, frame, now, cv))

\* FrameModel.process_frame(frame): [self, ret, raised]
\* ret is (frame_count, roi_list, update_velo_plot, update_average_velo)
FrameModel_process_frame(self, frame, now, cv) ==
  frame_rois([self EXCEPT !.frame_count = @ + 1,
                          !.last_processed_time = Some(now),
                          !.frame_history = Append(@, <<self.frame_count + 1, now>>)],
             frame, now, cv)

\* a setter that also rewrites the ratio of the trackers already created
get_px_to_mm_propagating(self, px_ratio) ==
  [self EXCEPT !.px2mm = px_ratio,
               !.roi_list = [i \in 1..Len(@) |-> [@[i] EXCEPT !.px2mm = px_ratio]]]

\* FrameModel.get_px_to_mm / get_overflow_direction
get_px_to_mm(self, px_ratio) == [self EXCEPT !.px2mm = px_ratio]
get_overflow_direction(self, degree) == [self EXCEPT !.degree = degree]

\* FrameModel.add_roi(roi): ROI.__init__ computes 1 / px2mm, which raises
\* ZeroDivisionError for px2mm = 0; nothing is appended then.
add_roi(self, roi, now) ==
  IF self.px2mm = 0 THEN self
  ELSE [self EXCEPT !.roi_list = Append(@, ROI(roi, self.px2mm, self.degree, now))]

\* a delete that removes the oldest tracker instead of the newest
delete_last_roi_oldest(self) ==
  IF self.roi_list = <<>>
    THEN [self |-> [self EXCEPT !.last_ret = Returned("delete_last_roi", Some(<<FALSE>>))],
          ret |-> FALSE]
  ELSE [self |-> [self EXCEPT !.roi_list = SubSeq(@, 2, Len(@)),
                              !.last_ret = Returned("delete_last_roi", Some(<<TRUE>>))],
        ret |-> TRUE]

\* FrameModel.delete_last_roi: [self, ret]
delete_last_roi(self) ==
  IF self.roi_list = <<>>
    THEN [self |-> [self EXCEPT !.last_ret = Returned("delete_last_roi", Some(<<FALSE>>))],
          ret |-> FALSE]
  ELSE [self |-> [self EXCEPT !.roi_list = SubSeq(@, 1, Len(@) - 1),
                              !.last_ret = Returned("delete_last_roi", Some(<<TRUE>>))],
        ret |-> TRUE]

\* FrameModel.reset
FrameModel_reset(self) ==
  [self EXCEPT !.frame_count = 0, !.frame_history = <<>>, !.roi_list = <<>>,
               !.last_ret = Returned("reset", None)]

\* ------------------------------------------------------------------- state
\* CameraThread.__init__, EventHandler.__init__
\* ------------------------------------------------------- video_recorder.py
\* VideoRecorder.__init__ (video_writer: None, or Some of the state of the
\* cv2.VideoWriter object: "open", "unopened")
VideoRecorder == [is_recording |-> FALSE, video_writer |-> None, frame_count |-> 0]

\* VideoRecorder.start_recording; opened is what video_writer.isOpened()
\* answers for the file
start_recording(self, opened) ==
  IF self.is_recording
  THEN [self |-> self, ret |-> FALSE]
  ELSE IF ~opened
  THEN [self |-> [self EXCEPT !.video_writer = Some("unopened")], ret |-> FALSE]
  ELSE [self |-> [self EXCEPT !.video_writer = Some("open"),
                              !.frame_count = 0,
                              !.is_recording = TRUE],
        ret |-> TRUE]

\* VideoRecorder.record_frame, for a video file (no frame is repeated)
record_frame(self) ==
  IF ~self.is_recording \/ self.video_writer = None
  THEN [self |-> self, ret |-> FALSE]
  ELSE [self |-> [self EXCEPT !.frame_count = @ + 1], ret |-> TRUE]



\* VideoRecorder.stop_recording
stop_recording(self) ==
  IF ~self.is_recording \/ self.video_writer = None
  THEN [self |-> self, ret |-> FALSE]
  ELSE [self |-> [self EXCEPT !.video_writer = None, !.is_recording = FALSE],
        ret |-> TRUE]

\* VideoRecorder.is_active
is_active(self) == self.is_recording

Init ==
  /\ recording_active = FALSE
  /\ finish_save_setting = FALSE
  /\ video_recorder = VideoRecorder
  /\ running = FALSE
  /\ paused = FALSE
  /\ if_release = TRUE
  /\ video_capture = None
  /\ thread_ = 0
  /\ threads = <<>>
  /\ frame_log = <<>>
  /\ queue = <<>>
  /\ call_stack = <<>>
  /\ playing = FALSE
  /\ has_last_video_source = FALSE
  /\ confirm_calibration = FALSE
  /\ drawing_roi = FALSE
  /\ drawing_ruler = FALSE
  /\ drawing_arrow = FALSE
  /\ frame_model = FrameModel
  /\ since_flag = None
  /\ clock = 0

nread == Len(frame_log)
ThreadIds == 1..Len(threads)
\* threading.Thread.is_alive()
is_alive(t) == threads[t].pc \notin {"done", "eos", "crashed"}
\* CameraThread.is_running / is_paused
is_running == running
is_paused == paused

Emitted(n) == IF n = None THEN None ELSE Some(n[1] + 1)

\* ------------------------------------------- CameraThread._capture_loop
\* while self.running and self.video_capture and self.video_capture.isOpened()
LoopTest(t) ==
  /\ threads[t].pc = "test"
  /\ threads' = [threads EXCEPT ![t].pc =
                   IF running /\ video_capture = Some("open") THEN "chk_pause" ELSE "done"]
  /\ UNCHANGED <<running, paused, if_release, video_capture, thread_, frame_log,
                 queue, call_stack, playing, has_last_video_source,
                 confirm_calibration, drawing_roi, drawing_ruler,
                 drawing_arrow, frame_model, since_flag, clock,
                 recorder_vars>>

\* if self.paused: time.sleep(0.1); continue
LoopTestPaused(t) ==
  /\ threads[t].pc = "chk_pause"
  /\ threads' = [threads EXCEPT ![t].pc = IF paused THEN "test" ELSE "read"]
  /\ UNCHANGED <<running, paused, if_release, video_capture, thread_, frame_log,
                 queue, call_stack, playing, has_last_video_source,
                 confirm_calibration, drawing_roi, drawing_ruler,
                 drawing_arrow, frame_model, since_flag, clock,
                 recorder_vars>>

\* ret, frame = self.video_capture.read() with ret true: a new frame
LoopReadFrame(t) ==
  /\ threads[t].pc = "read"
  /\ video_capture = Some("open")
  /\ nread < MaxReads
  /\ frame_log' = Append(frame_log, [release_at_read |-> if_release,
                                     tested |-> "no", emitted |-> 0, delivered |-> 0])
  /\ threads' = [threads EXCEPT ![t].pc = "chk_rel", ![t].frame = nread + 1]
  /\ UNCHANGED <<running, paused, if_release, video_capture, thread_,
                 queue, call_stack, playing, has_last_video_source,
                 confirm_calibration, drawing_roi, drawing_ruler,
                 drawing_arrow, frame_model, since_flag, clock,
                 recorder_vars>>

\* variant of LoopReadFails: the loop breaks and leaves running as it is
LoopReadFails_keeps_running(t) ==
  /\ threads[t].pc = "read"
  /\ video_capture # None
  /\ threads' = [threads EXCEPT ![t].pc = "eos"]
  /\ UNCHANGED <<running, paused, if_release, video_capture, thread_, frame_log,
                 queue, call_stack, playing, has_last_video_source,
                 confirm_calibration, drawing_roi, drawing_ruler,
                 drawing_arrow, frame_model, since_flag, clock,
                 recorder_vars>>

\* read() with ret false (end of stream, read error, handle released or
\* never opened): self.running = False; break
LoopReadFails(t) ==
  /\ threads[t].pc = "read"
  /\ video_capture # None
  /\ running' = FALSE
  /\ threads' = [threads EXCEPT ![t].pc = "eos"]
  /\ UNCHANGED <<paused, if_release, video_capture, thread_, frame_log,
                 queue, call_stack, playing, has_last_video_source,
                 confirm_calibration, drawing_roi, drawing_ruler,
                 drawing_arrow, frame_model, since_flag, clock,
                 recorder_vars>>

\* self.video_capture.read() after stop_capture has set the attribute to
\* None: AttributeError, the thread dies and running is left as it is
LoopReadCrashes(t) ==
  /\ threads[t].pc = "read"
  /\ video_capture = None
  /\ threads' = [threads EXCEPT ![t].pc = "crashed"]
  /\ UNCHANGED <<running, paused, if_release, video_capture, thread_, frame_log,
                 queue, call_stack, playing, has_last_video_source,
                 confirm_calibration, drawing_roi, drawing_ruler,
                 drawing_arrow, frame_model, since_flag, clock,
                 recorder_vars>>

\* variant of LoopEmit: the frame is emitted whatever the flag says
LoopEmit_unconditional(t) ==
  /\ threads[t].pc = "chk_rel"
  /\ LET f == threads[t].frame
     IN /\ queue' = Append(queue, f)
        /\ frame_log' = [frame_log EXCEPT
                           ![f].tested = (IF if_release THEN "true" ELSE "false"),
                           ![f].emitted = @ + 1]
        /\ since_flag' = Emitted(since_flag)
  /\ threads' = [threads EXCEPT ![t].pc = "test", ![t].frame = 0]
  /\ UNCHANGED <<running, paused, if_release, video_capture, thread_,
                 call_stack, playing, has_last_video_source,
                 confirm_calibration, drawing_roi, drawing_ruler,
                 drawing_arrow, frame_model, clock,
                 recorder_vars>>

\* after the pacing sleep: if self.if_release: self.frame_available.emit(frame)
LoopEmit(t) ==
  /\ threads[t].pc = "chk_rel"
  /\ LET f == threads[t].frame
     IN IF if_release
          THEN /\ queue' = Append(queue, f)
               /\ frame_log' = [frame_log EXCEPT ![f].tested = "true", ![f].emitted = @ + 1]
               /\ since_flag' = Emitted(since_flag)
          ELSE /\ queue' = queue
               /\ frame_log' = [frame_log EXCEPT ![f].tested = "false"]
               /\ since_flag' = since_flag
  /\ threads' = [threads EXCEPT ![t].pc = "test", ![t].frame = 0]
  /\ UNCHANGED <<running, paused, if_release, video_capture, thread_,
                 call_stack, playing, has_last_video_source,
                 confirm_calibration, drawing_roi, drawing_ruler,
                 drawing_arrow, frame_model, clock,
                 recorder_vars>>

CaptureLoop(t) ==
  \/ LoopTest(t)
  \/ LoopTestPaused(t)
  \/ LoopReadFrame(t)
  \/ LoopReadFails(t)
  \/ LoopReadCrashes(t)
  \/ LoopEmit(t)

\* ------------------------------------------------------------ GUI thread
\* One activation per slot that is running on the GUI thread.  n0 and
\* was_running record the number of threads and the value of running at the
\* entry of start_capture.
Activation(op, pc) ==
  [op |-> op, pc |-> pc, frame |-> 0, src |-> "none", ret |-> FALSE,
   n0 |-> 0, was_running |-> FALSE]

Idle == call_stack = <<>>
Top == call_stack[Len(call_stack)]
At(pc) == IF call_stack = <<>> THEN FALSE ELSE Top.pc = pc
Push(a) == Append(call_stack, a)
Pop == SubSeq(call_stack, 1, Len(call_stack) - 1)
SetTop(a) == [call_stack EXCEPT ![Len(call_stack)] = a]
Goto(pc) == SetTop([Top EXCEPT !.pc = pc])

Sources == {"ok", "bad"}
\* a start_capture that succeeds creates a thread: bounded by MaxThreads
MayStart(src) == src = "ok" => Len(threads) < MaxThreads

\* variant of start_capture: a running capture is not stopped first
start_capture_without_stop(op, src) ==
  [Activation(op, "open") EXCEPT
     !.src = src, !.n0 = Len(threads), !.was_running = running]

\* CameraThread.start_capture, lines 63-68: "if self.running: self.stop_capture()"
start_capture(op, src) ==
  [Activation(op, IF running THEN "stop_flags" ELSE "open") EXCEPT
     !.src = src, !.n0 = Len(threads), !.was_running = running]

\* EventHandler.import_local_video up to the call of start_capture
ImportLocalVideo(src) ==
  /\ Idle
  /\ MayStart(src)
  /\ has_last_video_source' = TRUE
  /\ call_stack' = Push(start_capture("import", src))
  /\ UNCHANGED <<running, paused, if_release, video_capture, thread_, threads,
                 frame_log, queue, playing, confirm_calibration, drawing_roi,
                 drawing_ruler, drawing_arrow,
                 frame_model, since_flag, clock,
                 recorder_vars>>

\* CameraThread.stop_capture: self.running = False; self.paused = False
StopSetFlags ==
  /\ At("stop_flags")
  /\ running' = FALSE
  /\ paused' = FALSE
  /\ since_flag' = Some(0)
  /\ call_stack' = Goto("join")
  /\ UNCHANGED <<if_release, video_capture, thread_, threads, frame_log, queue,
                 playing, has_last_video_source, confirm_calibration,
                 drawing_roi, drawing_ruler, drawing_arrow, frame_model, clock,
                 recorder_vars>>

\* self.thread_.join(timeout=1.0) returns because the thread has ended,
\* or there is nothing to join
StopJoin ==
  /\ At("join")
  /\ (IF thread_ = 0 THEN TRUE ELSE ~is_alive(thread_))
  /\ call_stack' = Goto("release")
  /\ UNCHANGED <<running, paused, if_release, video_capture, thread_, threads,
                 frame_log, queue, playing, has_last_video_source,
                 confirm_calibration, drawing_roi, drawing_ruler,
                 drawing_arrow, frame_model, since_flag, clock,
                 recorder_vars>>

\* join(timeout=1.0) returns because the second has passed (the thread is
\* blocked in read() or in its pacing sleep, or is simply slow)
StopJoinTimeout ==
  /\ At("join")
  /\ (IF thread_ = 0 THEN FALSE ELSE is_alive(thread_))
  /\ call_stack' = Goto("release")
  /\ UNCHANGED <<running, paused, if_release, video_capture, thread_, threads,
                 frame_log, queue, playing, has_last_video_source,
                 confirm_calibration, drawing_roi, drawing_ruler,
                 drawing_arrow, frame_model, since_flag, clock,
                 recorder_vars>>

\* if self.video_capture: self.video_capture.release()
StopRelease ==
  /\ At("release")
  /\ IF video_capture # None
       THEN video_capture' = Some("released") /\ call_stack' = Goto("setnone")
       ELSE video_capture' = video_capture /\ call_stack' = Goto("stop_ret")
  /\ UNCHANGED <<running, paused, if_release, thread_, threads, frame_log, queue,
                 playing, has_last_video_source, confirm_calibration,
                 drawing_roi, drawing_ruler, drawing_arrow, frame_model,
                 since_flag, clock,
                 recorder_vars>>

\* variant of StopSetNone: the released handle is kept
StopSetNone_keeps_handle ==
  /\ At("setnone")
  /\ call_stack' = Goto("stop_ret")
  /\ UNCHANGED <<running, paused, if_release, video_capture, thread_, threads,
                 frame_log, queue, playing, has_last_video_source,
                 confirm_calibration, drawing_roi, drawing_ruler,
                 drawing_arrow, frame_model, since_flag, clock,
                 recorder_vars>>

\* self.video_capture = None
StopSetNone ==
  /\ At("setnone")
  /\ video_capture' = None
  /\ call_stack' = Goto("stop_ret")
  /\ UNCHANGED <<running, paused, if_release, thread_, threads, frame_log, queue,
                 playing, has_last_video_source, confirm_calibration,
                 drawing_roi, drawing_ruler, drawing_arrow, frame_model,
                 since_flag, clock,
                 recorder_vars>>

\* stop_capture has returned: start_capture goes on to open the source,
\* reset_mission goes on with self.frame_model.reset()
StopReturn ==
  /\ At("stop_ret")
  /\ IF Top.op = "reset"
       THEN frame_model' = FrameModel_reset(frame_model) /\ call_stack' = Pop
       ELSE frame_model' = frame_model /\ call_stack' = Goto("open")
  /\ UNCHANGED <<running, paused, if_release, video_capture, thread_, threads,
                 frame_log, queue, playing, has_last_video_source,
                 confirm_calibration, drawing_roi, drawing_ruler,
                 drawing_arrow, since_flag, clock,
                 recorder_vars>>

\* start_capture, lines 70-98: self.video_capture = cv2.VideoCapture(...);
\* if not isOpened(): return False; otherwise self.running = True, the
\* thread is created and started, return True
StartOpen ==
  /\ At("open")
  /\ IF Top.src = "ok"
       THEN /\ video_capture' = Some("open")
            /\ running' = TRUE
            /\ threads' = Append(threads, [pc |-> "test", frame |-> 0])
            /\ thread_' = Len(threads) + 1
            /\ since_flag' = None
            /\ call_stack' = SetTop([Top EXCEPT !.pc = "start_ret", !.ret = TRUE])
       ELSE /\ video_capture' = Some("unopened")
            /\ call_stack' = SetTop([Top EXCEPT !.pc = "start_ret", !.ret = FALSE])
            /\ UNCHANGED <<running, threads, thread_, since_flag>>
  /\ UNCHANGED <<paused, if_release, frame_log, queue,
                 playing, has_last_video_source, confirm_calibration,
                 drawing_roi, drawing_ruler, drawing_arrow, frame_model, clock,
                 recorder_vars>>

\* start_capture has returned; import_local_video sets playing and creates a
\* new overlay widget on success, pause_play sets playing whatever the result
StartReturn ==
  /\ At("start_ret")
  /\ IF Top.op = "import"
       THEN /\ playing' = (IF Top.ret THEN TRUE ELSE playing)
            /\ drawing_roi' = (IF Top.ret THEN FALSE ELSE drawing_roi)
            /\ drawing_ruler' = (IF Top.ret THEN FALSE ELSE drawing_ruler)
            /\ drawing_arrow' = (IF Top.ret THEN FALSE ELSE drawing_arrow)
       ELSE /\ playing' = TRUE
            /\ UNCHANGED <<drawing_roi, drawing_ruler, drawing_arrow>>
  /\ call_stack' = Pop
  /\ UNCHANGED <<running, paused, if_release, video_capture, thread_, threads,
                 frame_log, queue, has_last_video_source, confirm_calibration,
                 frame_model, since_flag, clock,
                 recorder_vars>>

\* EventHandler.reset_mission up to camera_thread.reset(), which is stop_capture
ResetMission ==
  /\ Idle
  /\ confirm_calibration' = FALSE
  /\ call_stack' = Push(Activation("reset", "stop_flags"))
  /\ UNCHANGED <<running, paused, if_release, video_capture, thread_, threads,
                 frame_log, queue, playing, has_last_video_source,
                 drawing_roi, drawing_ruler, drawing_arrow,
                 frame_model, since_flag, clock,
                 recorder_vars>>

\* variant of pause: the capture is stopped as well
pause_and_stop ==
  /\ paused' = TRUE
  /\ running' = FALSE
  /\ since_flag' = Some(0)
  /\ UNCHANGED <<if_release, video_capture, thread_, threads>>

\* CameraThread.pause
pause ==
  /\ paused' = TRUE
  /\ since_flag' = Some(0)
  /\ UNCHANGED <<running, if_release, video_capture, thread_, threads>>

\* CameraThread.resume
resume ==
  /\ paused' = FALSE
  /\ since_flag' = None
  /\ UNCHANGED <<running, if_release, video_capture, thread_, threads>>

\* EventHandler.pause_play, lines 706-719
PausePlay ==
  /\ Idle
  /\ IF ~is_running /\ ~playing
       THEN /\ call_stack' = Push(Activation("pause_play", "pp_warning"))
            /\ UNCHANGED <<camera_vars, since_flag, playing>>
     ELSE IF playing
       THEN pause /\ playing' = FALSE /\ call_stack' = call_stack
     ELSE /\ call_stack' = Push(Activation("pause_play", "pp_resume"))
          /\ UNCHANGED <<camera_vars, since_flag, playing>>
  /\ UNCHANGED <<frame_log, queue, has_last_video_source, confirm_calibration,
                 drawing_roi, drawing_ruler, drawing_arrow, frame_model, clock,
                 recorder_vars>>

\* EventHandler.pause_play, lines 707-708: the operator closes the warning
\* "No video source loaded!" and the handler returns
DismissWarning ==
  /\ At("pp_warning")
  /\ call_stack' = Pop
  /\ UNCHANGED <<camera_vars, frame_log, queue, playing, has_last_video_source,
                 confirm_calibration, drawing_roi, drawing_ruler,
                 drawing_arrow, frame_model, since_flag, clock,
                 recorder_vars>>

\* EventHandler.pause_play, lines 720-738
PausePlayResume(src) ==
  /\ At("pp_resume")
  /\ IF is_running /\ is_paused
       THEN resume /\ playing' = TRUE /\ call_stack' = Pop
     ELSE IF has_last_video_source
       THEN /\ MayStart(src)
            /\ call_stack' = SetTop(start_capture("pause_play", src))
            /\ UNCHANGED <<camera_vars, since_flag, playing>>
     ELSE /\ call_stack' = Pop
          /\ UNCHANGED <<camera_vars, since_flag, playing>>
  /\ UNCHANGED <<frame_log, queue, has_last_video_source, confirm_calibration,
                 drawing_roi, drawing_ruler, drawing_arrow, frame_model, clock,
                 recorder_vars>>

\* values the calibration text boxes hold when the operator confirms
\* ratios a ruler measurement or the ratio text box can yield; a click
\* without a drag measures 0 pixels
RulerRatios == {0, 1, 2}
PxRatios == {2}
TextDegrees == {90}

\* EventHandler.confirm_arrow_n_ruler with text boxes that parse as floats
ConfirmArrowNRuler(px_distance, arrow_direction) ==
  /\ Idle
  /\ IF is_running
       THEN /\ frame_model' = get_overflow_direction(
                                get_px_to_mm(frame_model, px_distance), arrow_direction)
            /\ confirm_calibration' = TRUE
       ELSE UNCHANGED <<frame_model, confirm_calibration>>
  /\ UNCHANGED <<running, paused, if_release, video_capture, thread_, threads,
                 frame_log, queue, call_stack, playing, has_last_video_source,
                 drawing_roi, drawing_ruler, drawing_arrow, since_flag, clock,
                 recorder_vars>>

\* EventHandler.add_roi: OverlayWidget.start_roi_drawing
AddRoi ==
  /\ Idle
  /\ drawing_roi' = (IF is_running /\ confirm_calibration THEN TRUE ELSE drawing_roi)
  /\ drawing_ruler' = (IF is_running /\ confirm_calibration THEN FALSE ELSE drawing_ruler)
  /\ drawing_arrow' = drawing_arrow
  /\ UNCHANGED <<running, paused, if_release, video_capture, thread_, threads,
                 frame_log, queue, call_stack, playing, has_last_video_source,
                 confirm_calibration, frame_model, since_flag, clock,
                 recorder_vars>>

\* rectangles the operator can draw: QRect(start, end).normalized() as
\* (x, y, width, height); the second starts left of the widget
Rects == {<<0, 0, 2, 2>>, <<-1, 0, 2, 2>>}

\* OverlayWidget.mouseReleaseEvent in ROI mode: roi_created is emitted and
\* EventHandler.handle_roi_created calls FrameModel.add_roi
MouseReleaseRoi(rect) ==
  /\ Idle
  /\ drawing_roi
  /\ Len(frame_model.roi_list) < MaxRois
  /\ frame_model' = add_roi(frame_model, rect, clock)
  /\ drawing_roi' = FALSE
  /\ UNCHANGED <<running, paused, if_release, video_capture, thread_, threads,
                 frame_log, queue, call_stack, playing, has_last_video_source,
                 confirm_calibration, drawing_ruler, drawing_arrow, since_flag,
                 clock,
                 recorder_vars>>

\* EventHandler.delete_last_roi
DeleteLastRoi ==
  /\ Idle
  /\ frame_model' = delete_last_roi(frame_model).self
  /\ UNCHANGED <<running, paused, if_release, video_capture, thread_, threads,
                 frame_log, queue, call_stack, playing, has_last_video_source,
                 confirm_calibration, drawing_roi, drawing_ruler,
                 drawing_arrow, since_flag, clock,
                 recorder_vars>>

\* ------------------------------------ the slot EventHandler.process_new_frame
\* The event loop takes the next posted frame when the GUI thread is idle,
\* or when it sits in the modal QMessageBox of display_roi or of pause_play
\* (whose exec() runs a nested event loop).
CanDispatch ==
  \/ Idle
  \/ At("dialog") /\ Len(call_stack) < MaxDepth
  \/ At("pp_warning") /\ Len(call_stack) < MaxDepth
  \/ At("rec_warning") /\ Len(call_stack) < MaxDepth

\* the slot is called; process_new_frame, lines 819-839: return if not
\* playing; otherwise self.camera_thread.if_release = False and
\* FrameModel.process_frame is entered
\* variant of process_new_frame without the test of playing
ProcessNewFrame_ignoring_playing ==
  /\ queue # <<>>
  /\ CanDispatch
  /\ queue' = Tail(queue)
  /\ frame_log' = [frame_log EXCEPT ![Head(queue)].delivered = @ + 1]
  /\ if_release' = FALSE
  /\ call_stack' = Push([Activation("frame", "process_frame")
                           EXCEPT !.frame = Head(queue)])
  /\ UNCHANGED <<running, paused, video_capture, thread_, threads,
                 playing, has_last_video_source, confirm_calibration,
                 drawing_roi, drawing_ruler, drawing_arrow, frame_model,
                 since_flag, clock,
                 recorder_vars>>

ProcessNewFrame ==
  /\ queue # <<>>
  /\ CanDispatch
  /\ queue' = Tail(queue)
  /\ frame_log' = [frame_log EXCEPT ![Head(queue)].delivered = @ + 1]
  /\ IF playing
       THEN /\ if_release' = FALSE
            /\ call_stack' = Push([Activation("frame", "process_frame")
                                     EXCEPT !.frame = Head(queue)])
       ELSE /\ if_release' = if_release
            /\ call_stack' = call_stack
  /\ UNCHANGED <<running, paused, video_capture, thread_, threads,
                 playing, has_last_video_source, confirm_calibration,
                 drawing_roi, drawing_ruler, drawing_arrow, frame_model,
                 since_flag, clock,
                 recorder_vars>>

\* _process_frame_with_model: FrameModel.process_frame runs to its end; an
\* exception leaves the slot at once; otherwise display_roi asks
\* is_running() and shows a modal warning if the capture is not running
ProcessFrameWithModel(cv) ==
  /\ At("process_frame")
  /\ \E r \in {FrameModel_process_frame(frame_model, Top.frame, clock, cv)} :
        /\ frame_model' = r.self
        /\ call_stack' = IF r.raised THEN Pop
                         ELSE IF ~is_running THEN Goto("dialog")
                         ELSE Goto("if_release")
  /\ UNCHANGED <<running, paused, if_release, video_capture, thread_, threads,
                 frame_log, queue, playing, has_last_video_source,
                 confirm_calibration, drawing_roi, drawing_ruler,
                 drawing_arrow, since_flag, clock,
                 recorder_vars>>

\* the operator closes the warning of display_roi
DismissDialog ==
  /\ At("dialog")
  /\ call_stack' = Goto("if_release")
  /\ UNCHANGED <<running, paused, if_release, video_capture, thread_, threads,
                 frame_log, queue, playing, has_last_video_source,
                 confirm_calibration, drawing_roi, drawing_ruler,
                 drawing_arrow, frame_model, since_flag, clock,
                 recorder_vars>>

\* process_new_frame, lines 840-853: self.camera_thread.if_release = True,
\* then the frame is displayed and the slot returns
ReleaseFrame ==
  /\ At("if_release")
  /\ if_release' = TRUE
  /\ video_recorder' = IF recording_active /\ is_active(video_recorder)
                         THEN record_frame(video_recorder).self
                         ELSE video_recorder
  /\ call_stack' = Pop
  /\ UNCHANGED <<running, paused, video_capture, thread_, threads, frame_log,
                 queue, playing, has_last_video_source, confirm_calibration,
                 drawing_roi, drawing_ruler, drawing_arrow, frame_model,
                 since_flag, clock, recording_active, finish_save_setting>>

\* ---------------------------------------------------------- specification
Next ==
  \/ \E t \in ThreadIds : CaptureLoop(t)
  \/ \E src \in Sources : ImportLocalVideo(src)
  \/ StopSetFlags
  \/ StopJoin
  \/ StopJoinTimeout
  \/ StopRelease
  \/ StopSetNone
  \/ StopReturn
  \/ StartOpen
  \/ StartReturn
  \/ ResetMission
  \/ PausePlay
  \/ DismissWarning
  \/ \E src \in Sources : PausePlayResume(src)
  \/ \E px \in PxRatios, d \in TextDegrees : ConfirmArrowNRuler(px, d)
  \/ AddRoi
  \/ \E rect \in Rects : MouseReleaseRoi(rect)
  \/ DeleteLastRoi
  \/ ProcessNewFrame
  \/ \E cv \in CvResults : ProcessFrameWithModel(cv)
  \/ DismissDialog
  \/ ReleaseFrame

Spec == Init /\ [][Next]_vars

\* ------------------------------------------- the calibration of the overlay
\* The ruler and arrow modes of the overlay widget, the confirmation with
\* the text boxes holding any value the operator typed, and the capture
\* started, stopped and reset around them. The spin box of the ruler holds
\* 1, so that the ratio is the measured length.

\* EventHandler.start_ruler_calibration: OverlayWidget.ruler_calibration
StartRulerCalibration ==
  /\ Idle
  /\ IF is_running /\ ~confirm_calibration
       THEN drawing_ruler' = TRUE /\ drawing_roi' = FALSE
       ELSE UNCHANGED <<drawing_ruler, drawing_roi>>
  /\ UNCHANGED <<camera_vars, frame_log, queue, call_stack, playing,
                 has_last_video_source, confirm_calibration, drawing_arrow,
                 frame_model, since_flag, clock,
                 recorder_vars>>

\* OverlayWidget.mouseReleaseEvent in ruler mode: ruler_measured is emitted
\* and EventHandler.handle_ruler_measurement stores the ratio
MouseReleaseRuler(px) ==
  /\ Idle
  /\ ~drawing_roi /\ drawing_ruler
  /\ frame_model' = get_px_to_mm(frame_model, px)
  /\ drawing_ruler' = FALSE
  /\ UNCHANGED <<camera_vars, frame_log, queue, call_stack, playing,
                 has_last_video_source, confirm_calibration, drawing_roi,
                 drawing_arrow, since_flag, clock,
                 recorder_vars>>

\* EventHandler.start_arrow_drawing: OverlayWidget.start_arrow_drawing
StartArrowDrawing ==
  /\ Idle
  /\ IF is_running /\ ~confirm_calibration
       THEN drawing_arrow' = TRUE /\ drawing_roi' = FALSE /\ drawing_ruler' = FALSE
       ELSE UNCHANGED <<drawing_arrow, drawing_roi, drawing_ruler>>
  /\ UNCHANGED <<camera_vars, frame_log, queue, call_stack, playing,
                 has_last_video_source, confirm_calibration, frame_model,
                 since_flag, clock,
                 recorder_vars>>

\* OverlayWidget.mouseReleaseEvent in arrow mode: arrow_drawn is emitted and
\* EventHandler.handle_arrow_drawing stores the direction
MouseReleaseArrow(degree) ==
  /\ Idle
  /\ ~drawing_roi /\ ~drawing_ruler /\ drawing_arrow
  /\ frame_model' = get_overflow_direction(frame_model, degree)
  /\ drawing_arrow' = FALSE
  /\ UNCHANGED <<camera_vars, frame_log, queue, call_stack, playing,
                 has_last_video_source, confirm_calibration, drawing_roi,
                 drawing_ruler, since_flag, clock,
                 recorder_vars>>

NextCalib ==
  \/ \E t \in ThreadIds : CaptureLoop(t)
  \/ \E src \in Sources : ImportLocalVideo(src)
  \/ StopSetFlags
  \/ StopJoin
  \/ StopJoinTimeout
  \/ StopRelease
  \/ StopSetNone
  \/ StopReturn
  \/ StartOpen
  \/ StartReturn
  \/ ResetMission
  \/ StartRulerCalibration
  \/ \E px \in RulerRatios : MouseReleaseRuler(px)
  \/ StartArrowDrawing
  \/ \E d \in Degrees : MouseReleaseArrow(d)
  \/ \E px \in RulerRatios, d \in Degrees : ConfirmArrowNRuler(px, d)
  \/ ProcessNewFrame
  \/ \E cv \in CvResults : ProcessFrameWithModel(cv)
  \/ DismissDialog
  \/ ReleaseFrame

SpecCalib == Init /\ [][NextCalib]_vars

\* ------------------------------------------------- recording of the video
\* Export.export_setting_window, the settings are saved
ExportSettings ==
  /\ Idle
  /\ finish_save_setting' = TRUE
  /\ UNCHANGED <<camera_vars, frame_log, queue, call_stack, playing,
                 has_last_video_source, confirm_calibration, drawing_roi,
                 drawing_ruler, drawing_arrow, frame_model, since_flag, clock,
                 recording_active, video_recorder>>

\* EventHandler.toggle_recording: the record button is pressed. A warning
\* is a modal dialog, during which the handler is on the stack; opened is
\* what the video writer answers when a recording is started.
ToggleRecording(opened) ==
  /\ Idle
  /\ IF ~is_running \/ ~finish_save_setting
       THEN /\ call_stack' = Push(Activation("toggle_recording", "rec_warning"))
            /\ UNCHANGED <<recording_active, video_recorder>>
     ELSE IF ~recording_active
       THEN \E r \in {start_recording(video_recorder, opened)} :
              /\ video_recorder' = r.self
              /\ recording_active' = (IF r.ret THEN TRUE ELSE recording_active)
              /\ call_stack' = (IF r.ret THEN call_stack
                                ELSE Push(Activation("toggle_recording", "rec_warning")))
     ELSE \E r \in {stop_recording(video_recorder)} :
            /\ video_recorder' = r.self
            /\ recording_active' = (IF r.ret THEN FALSE ELSE recording_active)
            /\ call_stack' = Push(Activation("toggle_recording", "rec_warning"))
  /\ UNCHANGED <<camera_vars, frame_log, queue, playing, has_last_video_source,
                 confirm_calibration, drawing_roi, drawing_ruler,
                 drawing_arrow, frame_model, since_flag, clock,
                 finish_save_setting>>

\* the operator closes the message box of toggle_recording
DismissRecordingMessage ==
  /\ At("rec_warning")
  /\ call_stack' = Pop
  /\ UNCHANGED <<camera_vars, frame_log, queue, playing, has_last_video_source,
                 confirm_calibration, drawing_roi, drawing_ruler,
                 drawing_arrow, frame_model, since_flag, clock,
                 recorder_vars>>

NextRec ==
  \/ \E t \in ThreadIds : CaptureLoop(t)
  \/ \E src \in Sources : ImportLocalVideo(src)
  \/ StopSetFlags
  \/ StopJoin
  \/ StopJoinTimeout
  \/ StopRelease
  \/ StopSetNone
  \/ StopReturn
  \/ StartOpen
  \/ StartReturn
  \/ ResetMission
  \/ ExportSettings
  \/ \E opened \in BOOLEAN : ToggleRecording(opened)
  \/ DismissRecordingMessage
  \/ ProcessNewFrame
  \/ \E cv \in CvResults : ProcessFrameWithModel(cv)
  \/ DismissDialog
  \/ ReleaseFrame

SpecRec == Init /\ [][NextRec]_vars

\* ------------------------------------------------ the tracker on its own
\* FrameModel driven directly, on one thread: the operations of the
\* orchestrator in any order, with the clock advancing between them.
MaxTrackRois == 2
MaxTrackFrames == 3
MaxClock == 2


AddUpTo(rect, max_rois) ==
  /\ Len(frame_model.roi_list) < max_rois
  /\ frame_model' = add_roi(frame_model, rect, clock)
  /\ UNCHANGED <<camera_vars, frame_log, queue, call_stack, playing,
                 has_last_video_source, confirm_calibration, drawing_roi,
                 drawing_ruler, drawing_arrow,
                 since_flag, clock,
                 recorder_vars>>

TrackAdd(rect) == AddUpTo(rect, MaxTrackRois)

ProcessUpTo(cv, max_frames) ==
  /\ frame_model.frame_count < max_frames
  /\ frame_model' = FrameModel_process_frame(frame_model, frame_model.frame_count + 1,
                                             clock, cv).self
  /\ UNCHANGED <<camera_vars, frame_log, queue, call_stack, playing,
                 has_last_video_source, confirm_calibration, drawing_roi,
                 drawing_ruler, drawing_arrow,
                 since_flag, clock,
                 recorder_vars>>

TrackProcess(cv) == ProcessUpTo(cv, MaxTrackFrames)

TrackDeleteLast ==
  /\ frame_model' = delete_last_roi(frame_model).self
  /\ UNCHANGED <<camera_vars, frame_log, queue, call_stack, playing,
                 has_last_video_source, confirm_calibration, drawing_roi,
                 drawing_ruler, drawing_arrow,
                 since_flag, clock,
                 recorder_vars>>

TrackReset ==
  /\ frame_model' = FrameModel_reset(frame_model)
  /\ UNCHANGED <<camera_vars, frame_log, queue, call_stack, playing,
                 has_last_video_source, confirm_calibration, drawing_roi,
                 drawing_ruler, drawing_arrow,
                 since_flag, clock,
                 recorder_vars>>

TrackCalibrate(px, d) ==
  /\ frame_model' = get_overflow_direction(get_px_to_mm(frame_model, px), d)
  /\ UNCHANGED <<camera_vars, frame_log, queue, call_stack, playing,
                 has_last_video_source, confirm_calibration, drawing_roi,
                 drawing_ruler, drawing_arrow,
                 since_flag, clock,
                 recorder_vars>>

Tick ==
  /\ clock < MaxClock
  /\ clock' = clock + 1
  /\ UNCHANGED <<camera_vars, frame_log, queue, call_stack, playing,
                 has_last_video_source, confirm_calibration, drawing_roi,
                 drawing_ruler, drawing_arrow,
                 frame_model, since_flag,
                 recorder_vars>>

NextTrack ==
  \/ \E rect \in Rects : TrackAdd(rect)
  \/ \E cv \in CvResults : TrackProcess(cv)
  \/ TrackDeleteLast
  \/ TrackReset
  \/ \E px \in RulerRatios, d \in Degrees : TrackCalibrate(px, d)
  \/ Tick

SpecTrack == Init /\ [][NextTrack]_vars

\* ------------------------------------- one tracker with a chosen estimator
\* One tracker is created after the calibration, the selector of its
\* estimator is assigned (current_algorithm is a plain attribute of
\* VideoAnalysis), and frames are processed as the clock advances.
MaxRoiFrames == 5
Algorithms == {"farneback", "lucas-kanade", "Farneback"}

RoiCalibrate(px, d) ==
  /\ frame_model.roi_list = <<>>
  /\ TrackCalibrate(px, d)

RoiAdd(rect) ==
  /\ frame_model.roi_list = <<>>
  /\ TrackAdd(rect)

SetAlgorithm(i, algorithm) ==
  /\ i \in 1..Len(frame_model.roi_list)
  /\ frame_model' = [frame_model EXCEPT
                       !.roi_list[i].analysis.current_algorithm = algorithm]
  /\ UNCHANGED <<camera_vars, frame_log, queue, call_stack, playing,
                 has_last_video_source, confirm_calibration, drawing_roi,
                 drawing_ruler, drawing_arrow,
                 since_flag, clock,
                 recorder_vars>>

RoiProcess(cv) == ProcessUpTo(cv, MaxRoiFrames)

NextRoi ==
  \/ \E px \in RulerRatios, d \in Degrees : RoiCalibrate(px, d)
  \/ \E rect \in Rects : RoiAdd(rect)
  \/ \E algorithm \in Algorithms : SetAlgorithm(1, algorithm)
  \/ \E cv \in CvResults : RoiProcess(cv)
  \/ Tick

SpecRoi == Init /\ [][NextRoi]_vars

\* ------------------------------------ a list of trackers, frame after frame
\* Trackers are added to the list, valid and invalid rectangles alike; a
\* fresh tracker's estimator keeps the selector VideoAnalysis.__init__ gives
\* it or has a recognized one assigned; every frame is processed by the
\* whole list.
MaxListRois == 3
MaxListFrames == 4

ListAdd(rect) == AddUpTo(rect, MaxListRois)

SelectDense(i) ==
  /\ i \in 1..Len(frame_model.roi_list)
  /\ frame_model.roi_list[i].ncalls = 0
  /\ frame_model.roi_list[i].analysis.current_algorithm # "farneback"
  /\ SetAlgorithm(i, "farneback")

ListProcess(cv) == ProcessUpTo(cv, MaxListFrames)

NextList ==
  \/ \E rect \in Rects : ListAdd(rect)
  \/ \E i \in 1..MaxListRois : SelectDense(i)
  \/ \E cv \in CvResults : ListProcess(cv)
  \/ Tick

SpecList == Init /\ [][NextList]_vars

\* --------------------------------------------- the cross hair of a tracker
\* OverlayWidget.drawROIs for one tracker: the cross position is created on
\* the first update, moved by the displacement and wrapped once per side.
\* The displacements drawn as inputs are whole numbers, on which int() is
\* the identity. The call raises at int(None) when a component is None,
\* after the initial position was stored.
drawROIs(roi) ==
  IF roi.delta_pixels = None
  THEN [self |-> roi, raised |-> FALSE]
  ELSE LET x1 == roi.coordinate[1]
           y1 == roi.coordinate[2]
           x2 == roi.coordinate[3]
           y2 == roi.coordinate[4]
           width == x2
           height == y2
           delta_x == roi.delta_pixels[1][1]
           delta_y == roi.delta_pixels[1][2]
           cross_position == IF roi.cross_position = None
                               THEN <<x1 + (x2 \div 2), y1 + (y1 \div 2)>>
                               ELSE roi.cross_position[1]
       IN  IF delta_x = None \/ delta_y = None
           THEN [self |-> [roi EXCEPT !.cross_position = Some(cross_position)],
                 raised |-> TRUE]
           ELSE LET moved_x == cross_position[1] + delta_x[1]
                    moved_y == cross_position[2] + delta_y[1]
                    low_x == IF moved_x < x1 THEN moved_x + width ELSE moved_x
                    low_y == IF moved_y < y1 THEN moved_y + height ELSE moved_y
                    cross_x == IF low_x >= x1 + x2 THEN low_x - width ELSE low_x
                    cross_y == IF low_y >= y1 + y2 THEN low_y - height ELSE low_y
                IN  [self |-> [roi EXCEPT !.cross_position = Some(<<cross_x, cross_y>>)],
                     raised |-> FALSE]

\* the loop of drawROIs over the list: a raising tracker ends the paint
RECURSIVE drawROIs_from(_, _)
drawROIs_from(roi_list, i) ==
  IF i > Len(roi_list) THEN roi_list
  ELSE LET d == drawROIs(roi_list[i])
       IN  IF d.raised THEN [roi_list EXCEPT ![i] = d.self]
           ELSE drawROIs_from([roi_list EXCEPT ![i] = d.self], i + 1)

\* OverlayWidget.paintEvent, on the list display_roi handed over (the
\* tracker objects of the frame model)
MaxCross == 12
CrossWithin(roi, bound) ==
  IF roi.cross_position = None THEN TRUE
  ELSE /\ roi.cross_position[1][1] \in (0 - bound)..bound
       /\ roi.cross_position[1][2] \in (0 - bound)..bound

PaintEvent ==
  /\ frame_model.roi_list # <<>>
  /\ \A i \in 1..Len(frame_model.roi_list) :
       CrossWithin(frame_model.roi_list[i], MaxCross)
  /\ frame_model' = [frame_model EXCEPT !.roi_list = drawROIs_from(@, 1)]
  /\ UNCHANGED <<camera_vars, frame_log, queue, call_stack, playing,
                 has_last_video_source, confirm_calibration, drawing_roi,
                 drawing_ruler, drawing_arrow, since_flag, clock,
                 recorder_vars>>

MaxCrossFrames == 3
CrossRects == {<<0, 0, 2, 2>>, <<1, 8, 3, 2>>}
CrossFlows == {<<0, 0>>, <<1, -1>>, <<-2, 1>>, <<2, -4>>}

CrossAdd(rect) ==
  /\ frame_model.roi_list = <<>>
  /\ AddUpTo(rect, 1)

CrossProcess(cv) == ProcessUpTo(cv, MaxCrossFrames)

NextCross ==
  \/ \E rect \in CrossRects : CrossAdd(rect)
  \/ \E algorithm \in Algorithms : SetAlgorithm(1, algorithm)
  \/ \E flow \in CrossFlows :
       CrossProcess([flow |-> flow, corners |-> 2, good |-> 1])
  \/ PaintEvent

SpecCross == Init /\ [][NextCross]_vars

\* ------------------------------------------------------------------ claims
Frames == 1..nread
Activations == 1..Len(call_stack)
Rois == 1..Len(frame_model.roi_list)

\* C1: at most one frame is in flight: FrameModel.process_frame is never
\* entered for a frame while the slot of an earlier delivered frame is still
\* between "if_release = False" and "if_release = True", that is, at no time
\* are two frames inside that bracket.
C1_OneFrameInFlight ==
  Cardinality({i \in Activations : call_stack[i].op = "frame"}) <= 1

\* C2: the number of frames emitted by the capture loop and not yet handled
\* by the consumer never exceeds one.
C2_NoBacklog == Len(queue) <= 1

\* C3 as claimed: a delivered frame is a captured one, no frame is delivered
\* twice, and a frame read while if_release is false is never delivered.
C3_ReadWhileHeldIsDropped ==
  /\ \A i \in 1..Len(queue) : queue[i] \in Frames
  /\ \A f \in Frames :
       /\ frame_log[f].delivered <= 1
       /\ ~frame_log[f].release_at_read =>
            frame_log[f].emitted = 0 /\ frame_log[f].delivered = 0

\* C3 amended: a delivered frame is a captured one, no frame is emitted or
\* delivered twice, and a frame for which the loop finds if_release false
\* when it tests the flag (after the pacing sleep) is dropped and never
\* delivered; hence delivered frames <= captured frames.
C3_TestedWhileHeldIsDropped ==
  /\ \A i \in 1..Len(queue) : queue[i] \in Frames
  /\ \A i \in Activations : call_stack[i].op = "frame" => call_stack[i].frame \in Frames
  /\ \A f \in Frames :
       /\ frame_log[f].emitted <= 1
       /\ frame_log[f].delivered <= frame_log[f].emitted
       /\ frame_log[f].tested # "true" => frame_log[f].emitted = 0
       /\ Cardinality({i \in 1..Len(queue) : queue[i] = f})
            = frame_log[f].emitted - frame_log[f].delivered
  /\ Cardinality({f \in Frames : frame_log[f].delivered > 0}) <= nread

\* C3 witness: one frame was dropped at the test and has not been delivered,
\* another one was delivered.
C3_Witness ==
  \E f, g \in Frames :
    /\ frame_log[f].tested = "false" /\ frame_log[f].delivered = 0
    /\ frame_log[g].delivered = 1

\* C4: at most one capture thread is alive at a time.
C4_OneCaptureThread ==
  Cardinality({t \in ThreadIds : is_alive(t)}) <= 1

\* C5: when start_capture returns False, running is false and no thread has
\* been created by the call.
C5_FailedStart ==
  (At("start_ret") /\ ~Top.ret) => (~is_running /\ Len(threads) = Top.n0)

\* C5 witness: start_capture returns False after a call made while a
\* capture was running.
C5_Witness == At("start_ret") /\ ~Top.ret /\ Top.was_running

\* C6: a step in which a read fails sets running to false, ends the loop and
\* emits nothing; and running becomes true again only in the step in which
\* start_capture succeeds.
C6_ReadFailureStops ==
  [][/\ \A t \in ThreadIds :
          (threads[t].pc = "read" /\ threads'[t].pc \in {"done", "eos"}) =>
             (~running' /\ ~is_alive(t)' /\ queue' = queue /\ frame_log' = frame_log)
     /\ (~running /\ running') =>
          (At("open") /\ Top.src = "ok" /\ At("start_ret")' /\ Top.ret')]_vars

\* C6 witness: a loop has ended on a failed read and is_running() is false.
C6_Witness == \E t \in ThreadIds : threads[t].pc = "eos" /\ ~is_running

\* C7: when stop_capture returns, running and paused are false and
\* video_capture is None.
C7_StopPostcondition ==
  At("stop_ret") => (~running /\ ~paused /\ video_capture = None)

\* C7 witness: stop_capture returns while the capture thread is still alive
\* (the join timed out).
C7_Witness ==
  /\ At("stop_ret")
  /\ thread_ # 0
  /\ is_alive(thread_)

\* C8: the steps of pause() and resume() change paused only (not the
\* handle, running or the threads), and a loop iteration that finds paused
\* set goes back to the loop test without reading or emitting.
C8_PauseResumeOnlyFlag ==
  [][/\ (Idle /\ playing /\ ~playing') =>
          (paused' /\ UNCHANGED <<running, if_release, video_capture, thread_, threads>>)
     /\ (At("pp_resume") /\ is_running /\ is_paused /\ call_stack' # call_stack) =>
          (~paused' /\ UNCHANGED <<running, if_release, video_capture, thread_, threads>>)
     /\ \A t \in ThreadIds :
          (threads[t].pc = "chk_pause" /\ paused /\ threads'[t] # threads[t]) =>
             (threads'[t].pc = "test" /\ frame_log' = frame_log /\ queue' = queue)]_vars

\* C8 witness: a live capture is paused: the thread is alive, the handle is
\* open and still the one start_capture opened.
C8_Witness ==
  /\ paused /\ running /\ ~playing
  /\ video_capture = Some("open")
  /\ \E t \in ThreadIds : threads[t].pc = "test"
  /\ nread > 0

\* C9: after pause() or stop_capture() has set its flag, at most one further
\* frame is emitted until resume() or start_capture sets its flag.
C9_AtMostOneFurtherFrame ==
  IF since_flag = None THEN TRUE ELSE since_flag[1] <= 1

\* C10: the first analyze call of a fresh estimator stores the frame and
\* returns (None, None); the second returns a numeric pair.
C10_SecondAnalyzeReturnsPair ==
  \A i \in Rois :
    LET roi == frame_model.roi_list[i]
    IN /\ roi.ncalls = 1 =>
            (roi.last_analyze = "sentinel" /\ roi.analysis.previous_frame # None)
       /\ roi.ncalls = 2 => roi.last_analyze = "pair"

\* ---------------------------------------------------- claims on the tracker
\* the selectors analyze recognizes
Recognized == {"farneback", "lucas-kanade"}
\* trackers that exist before and after a step
Kept == {i \in Rois : i <= Len(frame_model'.roi_list)}
\* the step is a process call on tracker i
Processed(i) == frame_model'.roi_list[i].ncalls = frame_model.roi_list[i].ncalls + 1

\* C11 as claimed: every analyze call made while the selector is not a
\* recognized value raises and leaves the stored previous frame unchanged.
C11_UnknownSelectorAlwaysFails ==
  [][\A i \in Kept :
       LET o == frame_model.roi_list[i]
           n == frame_model'.roi_list[i]
       IN (Processed(i) /\ o.analysis.current_algorithm \notin Recognized) =>
            /\ n.last_analyze = "raised"
            /\ n.analysis.previous_frame = o.analysis.previous_frame]_vars

\* C11 amended: an analyze call made while the selector is not a recognized
\* value never returns a displacement; if a previous frame is stored it
\* raises and leaves the stored frame unchanged; the first call of the
\* estimator (no previous frame) stores the frame and returns the sentinel.
C11_UnknownSelectorFailsAfterFirst ==
  [][\A i \in Kept :
       LET o == frame_model.roi_list[i]
           n == frame_model'.roi_list[i]
       IN (Processed(i) /\ o.analysis.current_algorithm \notin Recognized) =>
            /\ n.last_analyze # "pair"
            /\ n.npairs = o.npairs
            /\ IF o.analysis.previous_frame = None
                 THEN n.last_analyze = "sentinel" /\ n.analysis.previous_frame # None
                 ELSE /\ n.last_analyze = "raised"
                      /\ n.analysis.previous_frame = o.analysis.previous_frame]_vars

\* C11 witness: a call has raised on an estimator that had returned a
\* displacement before, and the frame of the raising call was not stored.
C11_Witness ==
  \E i \in Rois :
    LET roi == frame_model.roi_list[i]
    IN /\ roi.last_analyze = "raised"
       /\ roi.npairs > 0
       /\ roi.analysis.current_algorithm \notin Recognized
       /\ roi.analysis.previous_frame # Some(frame_model.frame_count)

RECURSIVE SumStamped(_, _)
SumStamped(history, ts) ==
  IF history = <<>> THEN 0
  ELSE (IF Head(history)[1] = ts THEN Head(history)[3] ELSE 0)
         + SumStamped(Tail(history), ts)

\* C13: a call that finalizes a velocity sample appends the sum of the
\* calibrated displacements of the frames stamped with the second that
\* ended; the displacement of the frame that opens the new second starts the
\* next accumulator.  At all times the accumulator is the sum over the
\* frames of the current second.
C13_SampleIsSumOfSecond ==
  /\ [](\A i \in Rois :
          LET roi == frame_model.roi_list[i]
          IN roi.current_velocity = SumStamped(roi.delta_history, roi.timestamp_buffer))
  /\ [][\A i \in Kept :
          LET o == frame_model.roi_list[i]
              n == frame_model'.roi_list[i]
          IN IF Processed(i) /\ n.last_analyze = "pair" /\ n.last_ret[1]
               THEN /\ n.velo_only_history =
                         Append(o.velo_only_history,
                                SumStamped(o.delta_history, o.timestamp_buffer))
                    /\ n.current_velocity =
                         n.delta_history[Len(n.delta_history)][3]
               ELSE n.velo_only_history = o.velo_only_history]_vars

\* C13 witness: a sample has just been finalized for a second in which two
\* frames with non-zero displacement were processed.
C13_Witness ==
  \E i \in Rois :
    LET roi == frame_model.roi_list[i]
        h == roi.delta_history
    IN /\ roi.last_ret[1]
       /\ Len(h) >= 3
       /\ h[Len(h) - 1][1] = h[Len(h) - 2][1]
       /\ h[Len(h) - 1][1] # h[Len(h)][1]
       /\ h[Len(h) - 1][3] # 0 /\ h[Len(h) - 2][3] # 0 /\ h[Len(h)][3] # 0
       /\ roi.velo_only_history[Len(roi.velo_only_history)]
            = h[Len(h) - 1][3] + h[Len(h) - 2][3]

\* C14: a process call produces a velocity sample exactly when the second of
\* the call differs from the second of the previous process call of the
\* same tracker.
C14_SampleOnSecondChange ==
  [][\A i \in Kept :
       LET o == frame_model.roi_list[i]
           n == frame_model'.roi_list[i]
       IN (Processed(i) /\ n.last_analyze = "pair") =>
            (n.last_ret[1] <=> (o.last_call # None /\ o.last_call # n.last_call))]_vars

\* C15: the rolling average stays absent until AverageWindow samples exist:
\* it is never recomputed while velo_only_history is empty or its length is
\* no multiple of AverageWindow.
C15_AverageAbsentBeforeWindow ==
  \A i \in Rois :
    LET roi == frame_model.roi_list[i]
    IN Len(roi.velo_only_history) < AverageWindow =>
         roi.average_velocity_past_30s = None

\* C16: the "new rolling average" flag returned by process_frame is true
\* only on a call that finalizes a sample and brings the number of samples
\* to a positive multiple of AverageWindow.
C16_AverageFlagOnlyOnWindow ==
  \A i \in Rois :
    LET roi == frame_model.roi_list[i]
    IN roi.last_ret[2] =>
         /\ roi.last_ret[1]
         /\ Len(roi.velo_only_history) > 0
         /\ Len(roi.velo_only_history) % AverageWindow = 0

\* C17: a call that finalizes a velocity sample writes it into the velocity
\* field of the entry that precedes the entry the call appends, and changes
\* the velocity field of no other entry.
C17_SampleInPrecedingEntry ==
  [][\A i \in Kept :
       LET o == frame_model.roi_list[i]
           n == frame_model'.roi_list[i]
           k == Len(o.delta_history)
       IN (Processed(i) /\ n.last_analyze = "pair") =>
            \A j \in 1..k :
              n.delta_history[j][4] =
                IF n.last_ret[1] /\ j = k
                  THEN Some(n.velo_only_history[Len(n.velo_only_history)])
                  ELSE o.delta_history[j][4]]_vars

\* C18: a process call in which analyze returns the sentinel returns
\* (False, False) and leaves delta_history, velo_only_history, the
\* accumulator current_velocity, timestamp_buffer and the rolling average
\* unchanged.
C18_SentinelRecordsNothing ==
  [][\A i \in Kept :
       LET o == frame_model.roi_list[i]
           n == frame_model'.roi_list[i]
       IN (Processed(i) /\ n.last_analyze = "sentinel") =>
            /\ n.last_ret = <<FALSE, FALSE>>
            /\ n.delta_history = o.delta_history
            /\ n.velo_only_history = o.velo_only_history
            /\ n.current_velocity = o.current_velocity
            /\ n.timestamp_buffer = o.timestamp_buffer
            /\ n.average_velocity_past_30s = o.average_velocity_past_30s]_vars

\* C18 witness: the sentinel call was made in a later second than the one
\* in which the tracker was created.
C18_Witness ==
  \E i \in Rois :
    LET roi == frame_model.roi_list[i]
    IN /\ roi.last_analyze = "sentinel"
       /\ roi.ncalls = 1
       /\ roi.last_call # Some(roi.timestamp_buffer)

\* C19: the calibrated displacement stored with a raw displacement (dx, dy)
\* is dx / ratio for a tracker of direction 0 and -dy / ratio for a tracker
\* of direction 90, where ratio is the px2mm the tracker captured.
C19_CalibratedDisplacement ==
  \A i \in Rois :
    LET roi == frame_model.roi_list[i]
    IN \A k \in 1..Len(roi.delta_history) :
         LET dx == roi.delta_history[k][2][1][1]
             dy == roi.delta_history[k][2][2][1]
             calibrated_delta == roi.delta_history[k][3]
         IN /\ roi.degree = 0 =>
                 calibrated_delta * roi.px2mm = dx /\ calibrated_delta = dx \div roi.px2mm
            /\ roi.degree = 90 =>
                 calibrated_delta * roi.px2mm = 0 - dy
                   /\ calibrated_delta = (0 - dy) \div roi.px2mm

\* C19 witness: a tracker of direction 90 and ratio 2 has stored a raw
\* displacement with dx # 0 and dy # 0, dx # -dy.
C19_Witness ==
  \E i \in Rois :
    LET roi == frame_model.roi_list[i]
    IN /\ roi.degree = 90
       /\ roi.px2mm = 2
       /\ \E k \in 1..Len(roi.delta_history) :
            /\ roi.delta_history[k][2] = <<Some(2), Some(-4)>>
            /\ roi.delta_history[k][3] = 2

\* C20: the ratio held by the orchestrator and the ratio captured by every
\* tracker are strictly positive.
C20_RatioPositive ==
  /\ frame_model.px2mm > 0
  /\ \A i \in Rois : frame_model.roi_list[i].px2mm > 0

\* ------------------------------------------------ claims on the orchestrator
\* the step appends a tracker
Added == Len(frame_model'.roi_list) = Len(frame_model.roi_list) + 1

\* C21: add_roi copies the global ratio and direction current at the call
\* into the new tracker, and no step (a later calibration included) changes
\* the ratio or the direction of a tracker that already exists.
C21_CalibrationCapturedAtAdd ==
  [][/\ \A i \in Kept :
          /\ frame_model'.roi_list[i].px2mm = frame_model.roi_list[i].px2mm
          /\ frame_model'.roi_list[i].degree = frame_model.roi_list[i].degree
     /\ Added =>
          LET n == frame_model'.roi_list[Len(frame_model'.roi_list)]
          IN /\ n.px2mm = frame_model.px2mm
             /\ n.degree = frame_model.degree
             /\ UNCHANGED <<frame_model.px2mm, frame_model.degree>>]_vars

\* C21 witness: two trackers created under different calibrations, the
\* first one still carrying the calibration that was replaced since.
C21_Witness ==
  /\ Len(frame_model.roi_list) = 2
  /\ frame_model.roi_list[1].px2mm # frame_model.px2mm
  /\ frame_model.roi_list[1].degree # frame_model.degree
  /\ frame_model.roi_list[2].px2mm = frame_model.px2mm
  /\ frame_model.roi_list[2].degree = frame_model.degree

\* the attributes of the orchestrator, without the bookkeeping
Attributes(self) == [self EXCEPT !.last_ret = None]
\* the last call returned ret from method op
HasReturned(self, op, ret) == self.last_ret = Returned(op, ret)
\* the step is a call of method op: the call returns in this step, and no
\* other method shortens the list or changes the counter
Called(op) ==
  /\ frame_model'.last_ret # None
  /\ frame_model'.last_ret[1].op = op
  /\ \/ frame_model'.last_ret # frame_model.last_ret
     \/ Len(frame_model'.roi_list) < Len(frame_model.roi_list)
     \/ frame_model'.frame_count # frame_model.frame_count

\* C22: delete_last_roi on an empty list returns False and changes nothing;
\* on a non-empty list it returns True and removes exactly the last tracker,
\* leaving the others, their order and every other attribute as they were.
C22_DeleteLast ==
  [][Called("delete_last_roi") =>
       IF frame_model.roi_list = <<>>
         THEN /\ HasReturned(frame_model', "delete_last_roi", Some(<<FALSE>>))
              /\ Attributes(frame_model') = Attributes(frame_model)
       ELSE /\ HasReturned(frame_model', "delete_last_roi", Some(<<TRUE>>))
            /\ Attributes(frame_model') =
                 [Attributes(frame_model) EXCEPT
                    !.roi_list = SubSeq(frame_model.roi_list, 1,
                                        Len(frame_model.roi_list) - 1)]]_vars

\* C22 witness: the newer of two distinct trackers was deleted after frames
\* were processed; the older one and the frame counter are still there.
C22_Witness ==
  /\ HasReturned(frame_model, "delete_last_roi", Some(<<TRUE>>))
  /\ Len(frame_model.roi_list) = 1
  /\ frame_model.roi_list[1].coordinate = <<-1, 0, 2, 2>>
  /\ frame_model.frame_count = 2

\* C23: after reset() the orchestrator's attributes (frame counter, frame
\* history, tracker list, calibration ratio and direction, last processed
\* time) equal those of a newly constructed orchestrator.
C23_ResetEqualsNew ==
  [][Called("reset") => Attributes(frame_model') = Attributes(FrameModel)]_vars

\* C24: a tracker whose rectangle fails the test of line 268 is never
\* processed and its histories stay empty; in a process call on a list that
\* holds such a tracker, skipping it does not raise (the call raises only
\* where a processed tracker raised) and every other tracker is processed.
C24_InvalidRectangleSkipped ==
  /\ [](\A i \in Rois :
          LET roi == frame_model.roi_list[i]
          IN ~valid_roi(roi.coordinate) =>
               /\ roi.ncalls = 0
               /\ roi.delta_history = <<>>
               /\ roi.velo_only_history = <<>>
               /\ roi.analysis.previous_frame = None)
  /\ [][(/\ Called("process_frame")
         /\ \E j \in Rois : ~valid_roi(frame_model.roi_list[j].coordinate)) =>
          /\ frame_model'.last_ret[1].ret = None =>
               \E k \in Kept : Processed(k) /\ frame_model'.roi_list[k].last_analyze = "raised"
          /\ \A i \in Kept :
               IF valid_roi(frame_model.roi_list[i].coordinate)
                 THEN Processed(i)
               ELSE frame_model'.roi_list[i] = frame_model.roi_list[i]]_vars

\* C25: every process call increments the frame counter by exactly one and
\* returns the tuple (frame_count, roi_list, flag, flag) with the new
\* counter; the counter equals the number of process calls since
\* construction or the last reset (one frame_history entry per call,
\* numbered 1, 2, ...); only process and reset change the counter and only
\* reset makes it smaller.
C25_CounterAndTuple ==
  /\ [](/\ frame_model.frame_count = Len(frame_model.frame_history)
        /\ \A k \in 1..Len(frame_model.frame_history) :
             frame_model.frame_history[k][1] = k)
  /\ [][/\ Called("process_frame") =>
             /\ frame_model'.frame_count = frame_model.frame_count + 1
             /\ frame_model'.last_ret[1].ret # None
             /\ frame_model'.last_ret[1].ret[1][3] = frame_model'.frame_count
        /\ frame_model'.frame_count # frame_model.frame_count =>
             Called("process_frame") \/ Called("reset")
        /\ frame_model'.frame_count < frame_model.frame_count =>
             Called("reset")]_vars

\* tracker i finalized a velocity sample in the step
FinalizedSample(i) ==
  /\ Processed(i)
  /\ Len(frame_model'.roi_list[i].velo_only_history)
       = Len(frame_model.roi_list[i].velo_only_history) + 1
\* tracker i computed its rolling average in the step (fm_model.py 153-156)
ComputedAverage(i) ==
  /\ Processed(i)
  /\ frame_model'.roi_list[i].last_analyze = "pair"
  /\ Len(frame_model'.roi_list[i].velo_only_history) % AverageWindow = 0
  /\ frame_model'.roi_list[i].average_velocity_past_30s =
       Some(SumSeq(LastK(frame_model'.roi_list[i].velo_only_history, AverageWindow)))

\* C26: in the tuple a process call returns, the velocity flag is true
\* exactly when a tracker processed in the call finalized a velocity sample,
\* and the average flag is true exactly when a tracker processed in the call
\* computed its rolling average.
C26_FlagsSummarizeTrackers ==
  [][(Called("process_frame") /\ frame_model'.last_ret[1].ret # None) =>
       LET ret == frame_model'.last_ret[1].ret[1]
       IN /\ ret[1] <=> \E i \in Kept : FinalizedSample(i)
          /\ ret[2] <=> \E i \in Kept : ComputedAverage(i)]_vars

\* C26 witness: a call on two trackers returned the velocity flag set and
\* the average flag clear: one tracker finalized a sample, the other one
\* returned the sentinel.
C26_Witness ==
  /\ HasReturned(frame_model, "process_frame", Some(<<TRUE, FALSE, frame_model.frame_count>>))
  /\ \E i, j \in Rois :
       /\ frame_model.roi_list[i].last_ret = <<TRUE, FALSE>>
       /\ frame_model.roi_list[i].last_call = Some(clock)
       /\ frame_model.roi_list[j].last_ret = <<FALSE, FALSE>>
       /\ frame_model.roi_list[j].last_analyze = "sentinel"
       /\ frame_model.roi_list[j].last_call = Some(clock)

\* ------------------------------------------------- claims on the frame slot
\* C27: the release flag is re-asserted when the handling of a delivered
\* frame ends, whether or not processing it failed: if_release is false
\* only while a frame is being handled.
C27_ReleasedAfterHandling ==
  (\A i \in Activations : call_stack[i].op # "frame") => if_release

\* ------------------------------------------------- claims on the estimator
\* C28: an analyze call of the sparse variant (a previous frame is stored)
\* in which no point is tracked returns (0, 0) and leaves prev_pts None; the
\* call detects features exactly when prev_pts is None at its start, so the
\* call after a loss of all points re-detects and a call with points does
\* not.
C28_SparseRedetectsWhenEmpty ==
  [][\A i \in Kept :
       LET o == frame_model.roi_list[i]
           n == frame_model'.roi_list[i]
       IN (/\ Processed(i)
           /\ o.analysis.current_algorithm = "lucas-kanade"
           /\ o.analysis.previous_frame # None) =>
            /\ n.last_analyze = "pair"
            /\ n.analysis.last_lk # None
            /\ n.analysis.last_lk[1].detect <=> (o.analysis.prev_pts = None)
            /\ IF n.analysis.last_lk[1].good = 0
                 THEN /\ n.delta_pixels = Some(<<Some(0), Some(0)>>)
                      /\ n.analysis.prev_pts = None
               ELSE n.analysis.prev_pts = Some(n.analysis.last_lk[1].good)]_vars

\* C28 witness: the points tracked so far were all lost in the last call,
\* which did not detect: (0, 0) was returned and prev_pts is None.
C28_Witness ==
  \E i \in Rois :
    LET roi == frame_model.roi_list[i]
    IN /\ roi.analysis.current_algorithm = "lucas-kanade"
       /\ roi.analysis.last_lk = SparseRun(FALSE, 0)
       /\ roi.analysis.prev_pts = None
       /\ roi.delta_pixels = Some(<<Some(0), Some(0)>>)
       /\ roi.npairs >= 2

\* C29: tracked points of an earlier sparse run are not carried over a
\* switch of the selector: a sparse call that follows a call of another
\* variant finds no points and detects anew.
C29_NoCarryOverAcrossSwitch ==
  [][\A i \in Kept :
       LET o == frame_model.roi_list[i]
           n == frame_model'.roi_list[i]
       IN (/\ Processed(i)
           /\ o.analysis.current_algorithm = "lucas-kanade"
           /\ o.analysis.previous_frame # None
           /\ o.analysis.last_lk = None) =>
            /\ o.analysis.prev_pts = None
            /\ n.analysis.last_lk[1].detect]_vars

\* C30: when a capture thread has run and is not running any more (the
\* stream ended or the capture was stopped), playback is not playing and a
\* video source was loaded earlier, a press of play/pause takes the restart
\* branch of pause_play (lines 731-735: start_capture(last_video_source),
\* playing = True), not the warning.
C30_PlayRestartsCapture ==
  [][(/\ Idle /\ ~is_running /\ ~playing /\ has_last_video_source
      /\ threads # <<>>
      /\ ~Idle' /\ Top'.op = "pause_play") =>
       (Top'.pc \in {"pp_resume", "stop_flags", "open"} /\ Top'.pc # "pp_warning")]_vars

\* C31: once the arrow and the ruler are confirmed, no event other than a
\* reset changes the calibration ratio or the overflow direction of the
\* frame model: every step that starts and ends with the calibration
\* confirmed leaves both as they were.
C31_CalibrationLockedUntilReset ==
  [][(confirm_calibration /\ confirm_calibration')
       => /\ frame_model'.px2mm = frame_model.px2mm
          /\ frame_model'.degree = frame_model.degree]_vars

\* C32: a tracker is appended to the list of the frame model only in a
\* state where the capture is running and the calibration is confirmed.
C32_AppendOnlyWhenRunningAndConfirmed ==
  [][Len(frame_model'.roi_list) > Len(frame_model.roi_list)
       => (is_running /\ confirm_calibration)]_vars

\* C33: after a cross-hair update of a tracker (a paint that moved the
\* cross by a numeric displacement), the stored cross position lies inside
\* the rectangle of the tracker: x <= cross_x < x + width and
\* y <= cross_y < y + height.
CrossInside(roi) ==
  /\ roi.coordinate[1] <= roi.cross_position[1][1]
  /\ roi.cross_position[1][1] < roi.coordinate[1] + roi.coordinate[3]
  /\ roi.coordinate[2] <= roi.cross_position[1][2]
  /\ roi.cross_position[1][2] < roi.coordinate[2] + roi.coordinate[4]

CrossUpdated(i) ==
  /\ i \in 1..Len(frame_model.roi_list)
  /\ i \in 1..Len(frame_model'.roi_list)
  /\ frame_model.roi_list[i].delta_pixels # None
  /\ frame_model.roi_list[i].delta_pixels # Some(<<None, None>>)
  /\ frame_model'.roi_list[i] = drawROIs(frame_model.roi_list[i]).self
  /\ frame_model'.roi_list[i].delta_pixels = frame_model.roi_list[i].delta_pixels

C33_CrossInsideRectangle ==
  [][\A i \in 1..Len(frame_model.roi_list) :
       (CrossUpdated(i) /\ frame_model.roi_list[i].coordinate[3] > 0
                        /\ frame_model.roi_list[i].coordinate[4] > 0)
         => CrossInside(frame_model'.roi_list[i])]_vars

\* C34: the capture loop never calls read() or isOpened() on a handle that
\* stop_capture has released or replaced by None: a loop step that leaves
\* the read finds the handle open, and a loop test that reaches isOpened()
\* (running holds and the handle is not None) finds it open.
C34_LoopUsesOnlyOpenHandle ==
  [][\A t \in 1..Len(threads) :
       /\ (threads[t].pc = "read" /\ threads'[t].pc # "read")
            => video_capture = Some("open")
       /\ (threads[t].pc = "test" /\ threads'[t].pc # "test"
             /\ running /\ video_capture # None)
            => video_capture = Some("open")]_vars

\* C35: when start_capture is about to return True, the capture is not
\* paused, whatever pause, resume, stop and end-of-stream events came
\* before the call.
C35_StartedCaptureNotPaused ==
  (At("start_ret") /\ Top.ret) => ~is_paused

\* C36: a press of the record button while a recording is active stops it:
\* after the press the writer is released and both recording_active and
\* the is_recording flag of the recorder are false, whether the capture is
\* running, has ended or was reset. A press is a step from the idle GUI
\* thread that toggles the recording or opens the message box of
\* toggle_recording.
RecordPressed ==
  /\ Idle
  /\ \/ recording_active' # recording_active
     \/ video_recorder'.is_recording # video_recorder.is_recording
     \/ /\ call_stack' # <<>>
        /\ call_stack'[Len(call_stack')].pc = "rec_warning"

C36_RecordButtonStopsRecording ==
  [][(recording_active /\ RecordPressed)
       => /\ ~recording_active'
          /\ ~video_recorder'.is_recording
          /\ video_recorder'.video_writer = None]_vars

\* C37: while playing is false, a frame delivered by the capture thread
\* changes no tracking state: the frame model (frame counter and the
\* histories of every tracker) and the release flag are as before, and the
\* slot returns at once, so that no later step works on the frame.
FrameDelivered == queue # <<>> /\ queue' = Tail(queue)

C37_PausedDeliveryChangesNothing ==
  [][(~playing /\ FrameDelivered)
       => /\ frame_model' = frame_model
          /\ if_release' = if_release
          /\ call_stack' = call_stack]_vars

\* a frame emitted after pause() was delivered with playing false
C37_Witness ==
  /\ Idle /\ ~playing /\ is_paused
  /\ since_flag # None /\ since_flag[1] >= 1
  /\ queue = <<>>

\* C38: in every reachable state the displacement a tracker exposes to the
\* display (delta_pixels) is None or a pair of two numbers, so that the
\* cross-hair update, which runs when it is not None, can add its
\* components to the cross position.
C38_DisplacementAbsentOrNumeric ==
  \A i \in Rois :
    \/ frame_model.roi_list[i].delta_pixels = None
    \/ /\ frame_model.roi_list[i].delta_pixels[1][1] # None
       /\ frame_model.roi_list[i].delta_pixels[1][2] # None

\* C39: in every reachable state of a tracker the entry appended last has
\* its velocity field absent, every entry with a velocity present is the
\* last entry of its wall-clock second (no later entry carries its
\* timestamp), and the entries with a velocity present are at most as many
\* as the finalized samples of velo_only_history.
WithVelocity(roi) ==
  {j \in 1..Len(roi.delta_history) : roi.delta_history[j][4] # None}

C39_VelocityFieldShape ==
  \A i \in Rois :
    LET roi == frame_model.roi_list[i]
        n == Len(roi.delta_history)
    IN /\ n > 0 => roi.delta_history[n][4] = None
       /\ \A j \in WithVelocity(roi) :
            \A k \in (j + 1)..n : roi.delta_history[k][1] # roi.delta_history[j][1]
       /\ Cardinality(WithVelocity(roi)) <= Len(roi.velo_only_history)

\* C39 witness: a tracker holds two entries of one second, the later of
\* which carries the sample of that second, followed by an entry of the
\* next second.
C39_Witness ==
  \E i \in Rois :
    LET roi == frame_model.roi_list[i]
    IN /\ Len(roi.delta_history) >= 3
       /\ roi.delta_history[1][1] = roi.delta_history[2][1]
       /\ roi.delta_history[1][4] = None
       /\ roi.delta_history[2][4] # None
       /\ roi.delta_history[3][1] # roi.delta_history[2][1]

====
